---- MODULE Spec2Model ----
(***************************************************************************)
(* Model of the prediction service of src/src/app: the FastAPI handlers    *)
(* and the metrics middleware of main.py, and the Prometheus metric        *)
(* collectors and the predictions buffer of metrics.py.                    *)
(*                                                                         *)
(* Numbers: feature values are exact integers, a mean is an exact reduced  *)
(* fraction, a standard deviation is the symbolic square root of an exact  *)
(* fraction, probabilities are integer hundredths.  Floating point         *)
(* rounding is not modelled.  Histograms and summaries are modelled by     *)
(* their observation counts (the observed values are wall-clock times).    *)
(***************************************************************************)
EXTENDS Integers, Sequences, FiniteSets, TLC

VARIABLES
    REQUEST_COUNT,        \* metrics.py:15  Counter  <<method, endpoint, status_code>> -> n
    REQUEST_LATENCY,      \* metrics.py:21  Histogram <<method, endpoint>> -> observations
    PREDICTION_COUNT,     \* metrics.py:28  Counter  <<model_name, class_name>> -> n
    FEATURE_MEAN,         \* metrics.py:40  Gauge    <<model_name, feature>> -> value
    FEATURE_STDDEV,       \* metrics.py:46  Gauge    <<model_name, feature>> -> value
    PREDICTION_LATENCY,   \* metrics.py:52  Summary  <<model_name>> -> observations
    DATA_DRIFT_SCORE,     \* metrics.py:58  Gauge    <<model_name, feature>> -> value
    PREDICTIONS_BUFFER,   \* metrics.py:65  _PREDICTIONS_BUFFER, a list of feature dicts
    conn,                 \* the requests in flight: slot -> position in dispatch, request,
                          \* response, and (history) the calls its handler made
    recorded,             \* history: the arguments of every record_prediction call, in order
    endCalls,             \* history: slot -> number of record_request_end calls made for it
    task                  \* the handler coroutines inside record_prediction: position, arguments

vars == <<REQUEST_COUNT, REQUEST_LATENCY, PREDICTION_COUNT, FEATURE_MEAN,
          FEATURE_STDDEV, PREDICTION_LATENCY, DATA_DRIFT_SCORE,
          PREDICTIONS_BUFFER, conn, recorded, endCalls, task>>

metricVars == <<REQUEST_COUNT, REQUEST_LATENCY, PREDICTION_COUNT, FEATURE_MEAN,
                FEATURE_STDDEV, PREDICTION_LATENCY, DATA_DRIFT_SCORE,
                PREDICTIONS_BUFFER>>

----------------------------------------------------------------------------
(* Bounds of the model *)

MaxRequests == 2      \* HTTP requests served in one behaviour of Spec
MaxRecords == 150     \* direct record_prediction calls in one behaviour of SpecBuffer
FreeCalls == 3        \* direct calls whose arguments are chosen freely
Period == 2           \* afterwards the direct caller repeats its call of Period calls ago
MaxLoopCalls == 102   \* record_prediction calls of the handlers in one behaviour of SpecLoop
MaxStatsRecords == 1  \* record_prediction calls in one behaviour of SpecStats

(* Program constants *)

BUFFER_SIZE == 100                                \* metrics.py:66 _BUFFER_SIZE
DEFAULT_MODEL == "iris_classification_model.pkl"  \* main.py:69
None == "None"                                    \* Python's None, for Optional[str]

----------------------------------------------------------------------------
(* Generic helpers *)

Min(a, b) == IF a < b THEN a ELSE b

\* the last n elements of a sequence
LastN(s, n) == IF Len(s) <= n THEN s ELSE SubSeq(s, Len(s) - n + 1, Len(s))

RECURSIVE GCD(_, _)
GCD(a, b) == IF b = 0 THEN a ELSE GCD(b, a % b)

\* the exact quotient n/d (n >= 0, d > 0) as a reduced fraction
Frac(n, d) == LET g == GCD(n, d) IN [num |-> n \div g, den |-> d \div g]

\* x ** 0.5 of an exact fraction, kept symbolic
Sqrt(q) == [sqrt_of |-> q]

\* s[lo] + ... + s[hi], by halves
RECURSIVE SumRange(_, _, _)
SumRange(s, lo, hi) ==
    IF lo > hi THEN 0
    ELSE IF lo = hi THEN s[lo]
    ELSE LET mid == (lo + hi) \div 2
         IN SumRange(s, lo, mid) + SumRange(s, mid + 1, hi)

\* sum(s) of a list of numbers
SumSeq(s) == SumRange(s, 1, Len(s))

\* a labelled metric is a map from the label tuples it has children for
EmptyMetric == [l \in {} |-> 0]

\* (mutation of Inc: the child is assigned 1 instead of incremented)
Inc_Assign(metric, l) ==
    [k \in DOMAIN metric \cup {l} |-> IF k = l THEN 1 ELSE metric[k]]

\* metric.labels(l).inc() / .observe(v): the child is created on first use
Inc(metric, l) ==
    IF l \in DOMAIN metric
    THEN [metric EXCEPT ![l] = @ + 1]
    ELSE [k \in DOMAIN metric \cup {l} |-> IF k = l THEN 1 ELSE metric[k]]

\* gauge.labels(l).set(v)
GaugeSet(gauge, l, v) ==
    [k \in DOMAIN gauge \cup {l} |-> IF k = l THEN v ELSE gauge[k]]

----------------------------------------------------------------------------
(* metrics.py *)

\* (mutation of BufferAppend: "while len >= _BUFFER_SIZE" evicts one too many)
BufferAppend_OffByOne(buffer, features) ==
    LastN(Append(buffer, features), BUFFER_SIZE - 1)

\* metrics.py:118-120: append, then pop the oldest while over capacity
BufferAppend(buffer, features) ==
    LastN(Append(buffer, features), BUFFER_SIZE)

\* metrics.py:142-146: the present values of one feature over the predictions
\* (the list comprehension over predictions[lo..hi], by halves)
RECURSIVE FeatureValuesIn(_, _, _, _)
FeatureValuesIn(predictions, feature_name, lo, hi) ==
    IF lo > hi THEN <<>>
    ELSE IF lo = hi
    THEN IF feature_name \in DOMAIN predictions[lo]
         THEN <<predictions[lo][feature_name]>> ELSE <<>>
    ELSE LET mid == (lo + hi) \div 2
         IN FeatureValuesIn(predictions, feature_name, lo, mid)
            \o FeatureValuesIn(predictions, feature_name, mid + 1, hi)

FeatureValues(predictions, feature_name) ==
    FeatureValuesIn(predictions, feature_name, 1, Len(predictions))

\* metrics.py:140-141: the features considered are the keys of predictions[0]
ConsideredFeatures(predictions) ==
    IF predictions = <<>> THEN {} ELSE DOMAIN predictions[1]

\* metrics.py:152: sum(values) / len(values)
MeanOf(values) == Frac(SumSeq(values), Len(values))

\* metrics.py:158-159: (sum((x - mean) ** 2) / len(values)) ** 0.5
\* with mean = S/n:  sum((x - S/n)^2) / n  =  sum((n*x - S)^2) / n^3
\* the squared deviations (n*x - S)^2 of the values from their scaled mean
SquaredDeviations(values, n, S) ==
    [i \in 1..n |-> (n * values[i] - S) * (n * values[i] - S)]

\* (mutation of StddevOf: the sample variance, divided by n - 1)
StddevOf_Sample(values) ==
    Sqrt(Frac(SumSeq(SquaredDeviations(values, Len(values), SumSeq(values))),
              Len(values) * Len(values) * (Len(values) - 1)))

StddevOf(values) ==
    Sqrt(Frac(SumSeq(SquaredDeviations(values, Len(values), SumSeq(values))),
              Len(values) * Len(values) * Len(values)))

\* (mutation of SetFeatureGauges: the children of the model are cleared before
\* the new values are set)
SetFeatureGauges_Cleared(gauge, model_name, values) ==
    [k \in {l \in DOMAIN gauge : l[1] # model_name}
            \cup {<<model_name, f>> : f \in DOMAIN values} |->
        IF k[1] = model_name THEN values[k[2]] ELSE gauge[k]]

\* gauge.labels(model_name, f).set(values[f]) for every f the map `values` has
SetFeatureGauges(gauge, model_name, values) ==
    [k \in DOMAIN gauge \cup {<<model_name, f>> : f \in DOMAIN values} |->
        IF k[1] = model_name /\ k[2] \in DOMAIN values THEN values[k[2]] ELSE gauge[k]]

\* metrics.py:148-155: the mean gauge after _update_feature_statistics
update_feature_mean(gauge, model_name, predictions) ==
    SetFeatureGauges(gauge, model_name,
        [f \in ConsideredFeatures(predictions) |->
            MeanOf(FeatureValues(predictions, f))])

\* (mutation of update_feature_stddev: "if len(values) > 0", the stddev is
\* written for a single value too)
update_feature_stddev_Always(gauge, model_name, predictions) ==
    SetFeatureGauges(gauge, model_name,
        [f \in {g \in ConsideredFeatures(predictions) :
                    Len(FeatureValues(predictions, g)) > 0} |->
            StddevOf(FeatureValues(predictions, f))])

\* metrics.py:157-162: the stddev gauge after _update_feature_statistics
update_feature_stddev(gauge, model_name, predictions) ==
    SetFeatureGauges(gauge, model_name,
        [f \in {g \in ConsideredFeatures(predictions) :
                    Len(FeatureValues(predictions, g)) > 1} |->
            StddevOf(FeatureValues(predictions, f))])

\* metrics.py:127-162 _update_feature_statistics
update_feature_statistics(model_name, predictions) ==
    /\ FEATURE_MEAN' = update_feature_mean(FEATURE_MEAN, model_name, predictions)
    /\ FEATURE_STDDEV' = update_feature_stddev(FEATURE_STDDEV, model_name, predictions)

\* (mutation of update_data_drift: the gauge is raised by the score, not set)
update_data_drift_Inc(model_name, feature, drift_score) ==
    DATA_DRIFT_SCORE' =
        GaugeSet(DATA_DRIFT_SCORE, <<model_name, feature>>,
                 (IF <<model_name, feature>> \in DOMAIN DATA_DRIFT_SCORE
                  THEN DATA_DRIFT_SCORE[<<model_name, feature>>] ELSE 0) + drift_score)

\* metrics.py:165-177 update_data_drift
update_data_drift(model_name, feature, drift_score) ==
    DATA_DRIFT_SCORE' = GaugeSet(DATA_DRIFT_SCORE, <<model_name, feature>>, drift_score)

\* (mutation of record_prediction: the prediction counter is not incremented)
record_prediction_Uncounted(model_name, features, predicted_class) ==
    /\ UNCHANGED PREDICTION_COUNT
    /\ PREDICTIONS_BUFFER' = BufferAppend(PREDICTIONS_BUFFER, features)
    /\ FEATURE_MEAN' = update_feature_mean(FEATURE_MEAN, model_name, PREDICTIONS_BUFFER')
    /\ FEATURE_STDDEV' = update_feature_stddev(FEATURE_STDDEV, model_name, PREDICTIONS_BUFFER')
    /\ PREDICTION_LATENCY' = Inc(PREDICTION_LATENCY, <<model_name>>)
    /\ recorded' = Append(recorded, [model_name |-> model_name, features |-> features,
                                     predicted_class |-> predicted_class])

\* (mutation of record_prediction: the statistics are recomputed before the
\* append, over the buffer as the call found it)
record_prediction_StatsFirst(model_name, features, predicted_class) ==
    /\ PREDICTION_COUNT' = Inc(PREDICTION_COUNT, <<model_name, predicted_class>>)
    /\ FEATURE_MEAN' = update_feature_mean(FEATURE_MEAN, model_name, PREDICTIONS_BUFFER)
    /\ FEATURE_STDDEV' = update_feature_stddev(FEATURE_STDDEV, model_name, PREDICTIONS_BUFFER)
    /\ PREDICTIONS_BUFFER' = BufferAppend(PREDICTIONS_BUFFER, features)
    /\ PREDICTION_LATENCY' = Inc(PREDICTION_LATENCY, <<model_name>>)
    /\ recorded' = Append(recorded, [model_name |-> model_name, features |-> features,
                                     predicted_class |-> predicted_class])

\* metrics.py:103-124 record_prediction, with _update_feature_statistics (127-162)
record_prediction(model_name, features, predicted_class) ==
    /\ PREDICTION_COUNT' = Inc(PREDICTION_COUNT, <<model_name, predicted_class>>)
    /\ PREDICTIONS_BUFFER' = BufferAppend(PREDICTIONS_BUFFER, features)
    /\ FEATURE_MEAN' = update_feature_mean(FEATURE_MEAN, model_name, PREDICTIONS_BUFFER')
    /\ FEATURE_STDDEV' = update_feature_stddev(FEATURE_STDDEV, model_name, PREDICTIONS_BUFFER')
    /\ PREDICTION_LATENCY' = Inc(PREDICTION_LATENCY, <<model_name>>)
    /\ recorded' = Append(recorded, [model_name |-> model_name, features |-> features,
                                     predicted_class |-> predicted_class])

\* (mutation of record_request_end: error responses are not counted)
record_request_end_SkipErrors(method, endpoint, status_code) ==
    IF status_code >= 500
    THEN UNCHANGED <<REQUEST_COUNT, REQUEST_LATENCY>>
    ELSE /\ REQUEST_COUNT' = Inc(REQUEST_COUNT, <<method, endpoint, status_code>>)
         /\ REQUEST_LATENCY' = Inc(REQUEST_LATENCY, <<method, endpoint>>)

\* metrics.py:83-100 record_request_end
record_request_end(method, endpoint, status_code) ==
    /\ REQUEST_COUNT' = Inc(REQUEST_COUNT, <<method, endpoint, status_code>>)
    /\ REQUEST_LATENCY' = Inc(REQUEST_LATENCY, <<method, endpoint>>)

\* metrics.py:180-187 get_metrics: the exposition of every registered collector
get_metrics ==
    [http_requests_total |-> REQUEST_COUNT,
     http_request_duration_seconds |-> REQUEST_LATENCY,
     model_prediction_count |-> PREDICTION_COUNT,
     prediction_feature_mean |-> FEATURE_MEAN,
     prediction_feature_stddev |-> FEATURE_STDDEV,
     model_prediction_latency_seconds |-> PREDICTION_LATENCY,
     model_data_drift_score |-> DATA_DRIFT_SCORE]

----------------------------------------------------------------------------
(* Values crossing the HTTP boundary *)

\* a Python / JSON scalar with its type; floats are exact hundredths
IntVal(n) == [type |-> "int", val |-> n]
FloatVal(h) == [type |-> "float", val |-> h]
StrVal(s) == [type |-> "str", val |-> s]

\* Python's str() of a scalar: str(1) = "1", str(3.14) = "3.14", str(4.0) = "4.0"
PyStr(v) ==
    IF v.type = "str" THEN v.val
    ELSE IF v.type = "int" THEN ToString(v.val)
    ELSE LET whole == v.val \div 100
             frac == v.val % 100
         IN ToString(whole) \o "." \o
            (IF frac % 10 = 0 THEN ToString(frac \div 10)
             ELSE IF frac < 10 THEN "0" \o ToString(frac)
             ELSE ToString(frac))

\* Python's float() of a probability, kept as exact hundredths
PyFloat(p) == FloatVal(p)

\* model_name.split('.')[0]: the text before the first dot
SplitDot0(name) ==
    CASE name = "iris_classification_model.pkl" -> "iris_classification_model"
      [] name = "binary.pkl" -> "binary"
      [] name = "regressor.joblib" -> "regressor"
      [] name = "regressor.v2.joblib" -> "regressor"
      [] name = "faulty.pkl" -> "faulty"
      [] name = "missing.pkl" -> "missing"
      [] name = "corrupt.pkl" -> "corrupt"
      [] name = "model.h5" -> "model"
      [] OTHER -> name

\* the index of x in the list s (list.index), 0 when x is not in s (ValueError)
IndexOf(s, x) ==
    IF \E i \in 1..Len(s) : s[i] = x
    THEN CHOOSE i \in 1..Len(s) : s[i] = x /\ \A j \in 1..(i - 1) : s[j] # x
    ELSE 0

\* the body of an error response: {"detail": <prefix><message>}; the message is
\* kept as the exception it renders and the feature names it lists
Detail(prefix, cause, names) ==
    [detail |-> [prefix |-> prefix, cause |-> cause, names |-> names]]

----------------------------------------------------------------------------
(* The artifacts of MODEL_DIR and the predictors they unpickle to *)

\* the predictors the store holds; a predictor is opaque to the service,
\* which probes feature_names_in_, predict_proba and classes_
Iris ==
    [name |-> "iris", has_feature_names_in_ |-> TRUE,
     feature_names_in_ |-> <<"f1", "f2">>,
     has_predict_proba |-> TRUE, classes_ |-> <<IntVal(0), IntVal(1), IntVal(2)>>]
Binary ==
    [name |-> "binary", has_feature_names_in_ |-> TRUE,
     feature_names_in_ |-> <<"f1", "f2">>,
     has_predict_proba |-> TRUE, classes_ |-> <<IntVal(0), IntVal(1)>>]
Regressor ==
    [name |-> "regressor", has_feature_names_in_ |-> FALSE,
     feature_names_in_ |-> <<>>,
     has_predict_proba |-> FALSE, classes_ |-> <<>>]
Faulty ==
    [name |-> "faulty", has_feature_names_in_ |-> FALSE,
     feature_names_in_ |-> <<>>,
     has_predict_proba |-> TRUE, classes_ |-> <<IntVal(0), IntVal(1)>>]

\* what a file holds that pickle.load cannot read back
Corrupt ==
    [name |-> "corrupt", has_feature_names_in_ |-> FALSE,
     feature_names_in_ |-> <<>>,
     has_predict_proba |-> FALSE, classes_ |-> <<>>]

\* the files of MODEL_DIR
ModelStore ==
    [file \in {"iris_classification_model.pkl", "binary.pkl",
               "regressor.joblib", "regressor.v2.joblib", "faulty.pkl", "model.h5",
               "corrupt.pkl"} |->
        CASE file = "iris_classification_model.pkl" -> Iris
          [] file = "binary.pkl" -> Binary
          [] file = "regressor.joblib" -> Regressor
          [] file = "regressor.v2.joblib" -> Regressor
          [] file = "faulty.pkl" -> Faulty
          [] file = "corrupt.pkl" -> Corrupt
          [] OTHER -> Regressor]

\* str.endswith for the two supported extensions
EndsWithPkl(name) ==
    name \in {"iris_classification_model.pkl", "binary.pkl", "faulty.pkl",
              "missing.pkl", "corrupt.pkl"}
EndsWithJoblib(name) == name \in {"regressor.joblib", "regressor.v2.joblib"}

\* model.predict(X)[0]: the label for the single row X, or an exception
\* with its message
ModelPredict(model, X) ==
    CASE model.name = "iris" ->
            [raises |-> FALSE, value |-> IntVal(X["f1"] + X["f2"]), message |-> ""]
      [] model.name = "binary" ->
            [raises |-> FALSE, value |-> IntVal(X["f1"]), message |-> ""]
      [] model.name = "regressor" ->
            [raises |-> FALSE, value |-> FloatVal(314 + 100 * X["f1"]), message |-> ""]
      [] OTHER ->
            IF "f2" \notin DOMAIN X
            THEN [raises |-> TRUE, value |-> IntVal(0), message |-> "'f2'"]
            ELSE IF X["f1"] = 0
            THEN [raises |-> FALSE, value |-> IntVal(0), message |-> ""]
            ELSE [raises |-> FALSE, value |-> IntVal(7), message |-> ""]

\* model.predict_proba(X)[0]: one probability per class, or an exception
\* with its message
ModelPredictProba(model, X) ==
    CASE model.name = "iris" ->
            [raises |-> FALSE, message |-> "",
             value |-> [i \in 1..3 |-> IF i = X["f1"] + X["f2"] + 1 THEN 80 ELSE 10]]
      [] model.name = "binary" ->
            [raises |-> FALSE, message |-> "",
             value |-> IF X["f1"] = 0 THEN <<70, 30>> ELSE <<20, 80>>]
      [] OTHER ->
            IF X["f1"] = 0
            THEN [raises |-> TRUE, message |-> "probabilities unavailable", value |-> <<>>]
            ELSE [raises |-> FALSE, message |-> "", value |-> <<40, 60>>]

----------------------------------------------------------------------------
(* main.py *)

\* (mutation of load_model: the predictor is loaded once and kept, whatever
\* identifier a later request names)
load_model_Cached(model_name) ==
    [raises |-> FALSE, model |-> ModelStore[DEFAULT_MODEL],
     status_code |-> 0, body |-> Detail("", "", {})]

\* (mutation of load_model: an artifact that does not load is replaced by the
\* default model)
load_model_Fallback(model_name) ==
    IF (EndsWithPkl(model_name) \/ EndsWithJoblib(model_name))
       /\ model_name \in DOMAIN ModelStore
       /\ ModelStore[model_name] # Corrupt
    THEN [raises |-> FALSE, model |-> ModelStore[model_name],
          status_code |-> 0, body |-> Detail("", "", {})]
    ELSE [raises |-> FALSE, model |-> ModelStore[DEFAULT_MODEL],
          status_code |-> 0, body |-> Detail("", "", {})]

\* main.py:83-107 load_model: the predictor, or HTTPException(500)
load_model(model_name) ==
    IF EndsWithPkl(model_name) \/ EndsWithJoblib(model_name)
    THEN IF model_name \notin DOMAIN ModelStore
         THEN [raises |-> TRUE, model |-> Regressor, status_code |-> 500,
               body |-> Detail("Error loading model: ", "FileNotFoundError", {})]
         ELSE IF ModelStore[model_name] = Corrupt
         THEN [raises |-> TRUE, model |-> Regressor, status_code |-> 500,
               body |-> Detail("Error loading model: ", "UnpicklingError", {})]
         ELSE [raises |-> FALSE, model |-> ModelStore[model_name],
               status_code |-> 0, body |-> Detail("", "", {})]
    ELSE [raises |-> TRUE, model |-> Regressor, status_code |-> 500,
          body |-> Detail("Error loading model: ",
                          "ValueError: Unsupported model format", {})]

\* main.py:109-120 get_model_version
get_model_version(model_name) == "1.0.0"

\* (mutation of PredictionError: the exception leaves the handler and the
\* framework answers its generic 500)
PredictionError_Escapes(cause, names) ==
    [status_code |-> 500, body |-> Detail("Internal Server Error", "", {}),
     record |-> FALSE, model_name |-> "", predicted_class |-> ""]

\* (mutation of PredictionError: "except HTTPException: raise" before the
\* catch-all, the handler's own 400 reaches the client)
PredictionError_ReraiseHTTP(cause, names) ==
    IF cause \in {"", "400: Missing required features: "}
    THEN [status_code |-> 400, body |-> Detail("Missing required features: ", "", names),
          record |-> FALSE, model_name |-> "", predicted_class |-> ""]
    ELSE [status_code |-> 500, body |-> Detail("Prediction error: ", cause, names),
          record |-> FALSE, model_name |-> "", predicted_class |-> ""]

\* (mutation of PredictionError: the prediction event is recorded in a finally
\* block, for failed requests too)
PredictionError_Recorded(cause, names) ==
    [status_code |-> 500, body |-> Detail("Prediction error: ", cause, names),
     record |-> TRUE, model_name |-> "unknown", predicted_class |-> "error"]

\* main.py:208-210: the handler's catch-all turns any exception into a 500
\* whose detail is "Prediction error: " and str() of the exception
PredictionError(cause, names) ==
    [status_code |-> 500, body |-> Detail("Prediction error: ", cause, names),
     record |-> FALSE, model_name |-> "", predicted_class |-> ""]

\* main.py:176-182: the single-row frame handed to the predictor
FeatureFrame(model, features) ==
    IF model.has_feature_names_in_
    THEN [f \in {model.feature_names_in_[i] : i \in 1..Len(model.feature_names_in_)}
             |-> features[f]]
    ELSE features

\* (mutation of PredictionIdx: the probability of the second class is taken,
\* whatever label was predicted)
PredictionIdx_Second(model, prediction_result) == 2

\* main.py:187-192: the probability of the response
\* (0 as index stands for the ValueError of list.index / an IndexError)
PredictionIdx(model, prediction_result) == IndexOf(model.classes_, prediction_result)

Probability(probabilities, prediction_idx) == PyFloat(probabilities[prediction_idx])

\* main.py:162-206, after load_model returned `model`: the response, and
\* whether and with what arguments metrics.record_prediction is called.
\* http_str is whether str() of an HTTPException renders its detail (it does
\* in recent Starlette releases and is empty in older ones).
predict_loaded(model_name, model, features, http_str) ==
    LET missing_features ==
            {model.feature_names_in_[i] : i \in 1..Len(model.feature_names_in_)}
                \ DOMAIN features
    IN
    IF model.has_feature_names_in_ /\ missing_features # {}
    THEN PredictionError(IF http_str THEN "400: Missing required features: " ELSE "",
                         IF http_str THEN missing_features ELSE {})
    ELSE
    LET X == FeatureFrame(model, features)
        predicted == ModelPredict(model, X)
        prediction_result == predicted.value
    IN
    IF predicted.raises THEN PredictionError(predicted.message, {})
    ELSE
    LET proba == ModelPredictProba(model, X)
        prediction_idx == PredictionIdx(model, prediction_result)
    IN
    IF model.has_predict_proba /\ proba.raises
    THEN PredictionError(proba.message, {})
    ELSE IF model.has_predict_proba
            /\ (prediction_idx = 0 \/ prediction_idx > Len(proba.value))
    THEN PredictionError(PyStr(prediction_result) \o " is not in list", {})
    ELSE
        [status_code |-> 200,
         body |-> [prediction |-> StrVal(PyStr(prediction_result)),
                   probability |-> IF model.has_predict_proba
                                   THEN Probability(proba.value, prediction_idx)
                                   ELSE FloatVal(0),
                   model_name |-> model_name,
                   model_version |-> get_model_version(model_name)],
         record |-> TRUE,
         model_name |-> SplitDot0(model_name),
         predicted_class |-> PyStr(prediction_result)]

\* main.py:159: request.model_name or DEFAULT_MODEL
ResolveModelName(body) ==
    IF body.model_name = None \/ body.model_name = ""
    THEN DEFAULT_MODEL ELSE body.model_name

\* main.py:148-210 predict
predict(body, http_str) ==
    LET model_name == ResolveModelName(body)
        loaded == load_model(model_name)
    IN IF loaded.raises
       THEN [status_code |-> loaded.status_code, body |-> loaded.body,
             record |-> FALSE, model_name |-> "", predicted_class |-> ""]
       ELSE predict_loaded(model_name, loaded.model, body.features, http_str)

\* main.py:162-199, after load_model returned `model`: the calls the handler
\* makes to the predictor and to the metrics module, in order
loaded_calls(model, features) ==
    IF model.has_feature_names_in_
       /\ ~({model.feature_names_in_[i] : i \in 1..Len(model.feature_names_in_)}
               \subseteq DOMAIN features)
    THEN <<>>
    ELSE
    LET X == FeatureFrame(model, features)
        predicted == ModelPredict(model, X)
    IN
    IF predicted.raises THEN <<"predict">>
    ELSE IF ~model.has_predict_proba THEN <<"predict", "record_prediction">>
    ELSE IF ModelPredictProba(model, X).raises
            \/ PredictionIdx(model, predicted.value) = 0
            \/ PredictionIdx(model, predicted.value) > Len(ModelPredictProba(model, X).value)
    THEN <<"predict", "predict_proba">>
    ELSE <<"predict", "predict_proba", "record_prediction">>

\* (mutation of predict_calls: a failed load is tried a second time)
predict_calls_Retry(body) ==
    IF load_model(ResolveModelName(body)).raises
    THEN <<"load_model", "load_model">>
    ELSE <<"load_model">>
         \o loaded_calls(load_model(ResolveModelName(body)).model, body.features)

\* main.py:159-199: the calls one run of predict makes, in order
predict_calls(body) ==
    IF load_model(ResolveModelName(body)).raises
    THEN <<"load_model">>
    ELSE <<"load_model">>
         \o loaded_calls(load_model(ResolveModelName(body)).model, body.features)

\* main.py:143-146 health
health == [status_code |-> 200, body |-> [status |-> "healthy"]]

\* main.py:122-141 root
root == [status_code |-> 200, body |-> [html |-> "ML Model API"]]

----------------------------------------------------------------------------
(* The inputs *)

\* the feature mappings clients send (Dict[str, float])
FeatureInputs ==
    { ("f1" :> 0) @@ ("f2" :> 1),
      ("f1" :> 1) @@ ("f2" :> 1),
      ("f1" :> 1) }

\* the model_name values clients send (Optional[str])
ModelSelectors ==
    {None, "binary.pkl", "regressor.joblib", "faulty.pkl", "missing.pkl", "model.h5",
     "corrupt.pkl", "regressor.v2.joblib"}

NoBody == [features |-> ("f1" :> 0), model_name |-> None]

\* the selectors of the classifiers with every feature mapping, and the
\* selectors of the regressors and of the artifacts that do not load with
\* one mapping each
PredictRequests ==
    {[method |-> "POST", path |-> "/predict",
      body |-> [features |-> f, model_name |-> m]] :
        f \in FeatureInputs,
        m \in {None, "binary.pkl", "faulty.pkl"}}
    \cup
    {[method |-> "POST", path |-> "/predict",
      body |-> [features |-> ("f1" :> 0) @@ ("f2" :> 1), model_name |-> m]] :
        m \in ModelSelectors \ {None, "binary.pkl", "faulty.pkl"}}

GetRequests ==
    {[method |-> "GET", path |-> p, body |-> NoBody] :
        p \in {"/", "/health", "/metrics", "/model/info"}}

Requests == PredictRequests \cup GetRequests

\* the arguments of the direct callers of metrics.record_prediction
DirectCalls ==
    { [model_name |-> "test_model", features |-> ("f1" :> 1) @@ ("f2" :> 2),
       predicted_class |-> "class_a"],
      [model_name |-> "test_model", features |-> ("f1" :> 3),
       predicted_class |-> "class_b"],
      [model_name |-> "other_model", features |-> ("f2" :> 0) @@ ("f3" :> 4),
       predicted_class |-> "class_a"] }

\* the arguments of the direct callers of metrics._update_feature_statistics
StatsModels == {"test_model", "other_model"}

StatsInputs ==
    { <<>>,
      << ("f1" :> 1) @@ ("f2" :> 2) >>,
      << ("f1" :> 1) @@ ("f2" :> 2), ("f1" :> 3) >>,
      << ("f1" :> 1) @@ ("f2" :> 2), ("f2" :> 0) @@ ("f3" :> 4) >> }

\* the arguments of the callers of metrics.update_data_drift
\* (scores in hundredths)
DriftModels == {"test_model", "other_model"}
DriftFeatures == {"f1"}
DriftScores == {10, 25}

Slots == 1..MaxRequests

\* the handler coroutines the event loop runs side by side
Handlers == {"h1", "h2"}

\* the arguments the handlers pass to metrics.record_prediction
LoopCalls == {call \in DirectCalls : call.model_name = "test_model"}

NoCall == [model_name |-> "", features |-> ("f1" :> 0), predicted_class |-> ""]

NoRequest == [method |-> "", path |-> "", body |-> NoBody]
NoResponse == [status_code |-> 0, body |-> [none |-> TRUE]]

----------------------------------------------------------------------------
(* The state after import of main.py and metrics.py *)

Init ==
    /\ REQUEST_COUNT = EmptyMetric
    /\ REQUEST_LATENCY = EmptyMetric
    /\ PREDICTION_COUNT = EmptyMetric
    /\ FEATURE_MEAN = EmptyMetric
    /\ FEATURE_STDDEV = EmptyMetric
    /\ PREDICTION_LATENCY = EmptyMetric
    /\ DATA_DRIFT_SCORE = EmptyMetric
    /\ PREDICTIONS_BUFFER = <<>>
    /\ conn = [r \in Slots |-> [pc |-> "idle", request |-> NoRequest,
                                response |-> NoResponse, calls |-> <<>>]]
    /\ recorded = <<>>
    /\ endCalls = [r \in Slots |-> 0]
    /\ task = [h \in Handlers |-> [pc |-> "await", call |-> NoCall]]

----------------------------------------------------------------------------
(* The HTTP service: one request per slot, interleaved at the awaits of     *)
(* MetricsMiddleware.dispatch; a handler runs without suspension.           *)

\* main.py:46-54: dispatch receives the request and awaits call_next
\* (record_request_start only reads the clock)
Dispatch(r, req) ==
    /\ conn[r].pc = "idle"
    /\ \A q \in 1..(r - 1) : conn[q].pc # "idle"
    /\ conn' = [conn EXCEPT ![r] = [pc |-> "call_next", request |-> req,
                                    response |-> NoResponse, calls |-> <<>>]]
    /\ UNCHANGED <<metricVars, recorded, endCalls, task>>

\* call_next for POST /predict: main.py:148-210
HandlePredict(r) ==
    /\ conn[r].pc = "call_next"
    /\ conn[r].request.path = "/predict"
    /\ \E http_str \in BOOLEAN :
         LET out == predict(conn[r].request.body, http_str)
         IN /\ conn' = [conn EXCEPT ![r].pc = "responded",
                                    ![r].response = [status_code |-> out.status_code,
                                                     body |-> out.body],
                                    ![r].calls = predict_calls(conn[r].request.body)]
            /\ IF out.record
               THEN record_prediction(out.model_name, conn[r].request.body.features,
                                      out.predicted_class)
               ELSE UNCHANGED <<PREDICTION_COUNT, PREDICTIONS_BUFFER, FEATURE_MEAN,
                                FEATURE_STDDEV, PREDICTION_LATENCY, recorded>>
    /\ UNCHANGED <<REQUEST_COUNT, REQUEST_LATENCY, DATA_DRIFT_SCORE, endCalls, task>>

\* call_next for GET /health: main.py:143-146
HandleHealth(r) ==
    /\ conn[r].pc = "call_next"
    /\ conn[r].request.path = "/health"
    /\ conn' = [conn EXCEPT ![r].pc = "responded", ![r].response = health]
    /\ UNCHANGED <<metricVars, recorded, endCalls, task>>

\* call_next for GET /: main.py:122-141
HandleRoot(r) ==
    /\ conn[r].pc = "call_next"
    /\ conn[r].request.path = "/"
    /\ conn' = [conn EXCEPT ![r].pc = "responded", ![r].response = root]
    /\ UNCHANGED <<metricVars, recorded, endCalls, task>>

\* call_next for GET /metrics: main.py:212-215
HandleMetrics(r) ==
    /\ conn[r].pc = "call_next"
    /\ conn[r].request.path = "/metrics"
    /\ conn' = [conn EXCEPT ![r].pc = "responded",
                            ![r].response = [status_code |-> 200,
                                             body |-> [content |-> get_metrics]]]
    /\ UNCHANGED <<metricVars, recorded, endCalls, task>>

\* call_next for a path no route is declared for: the router answers 404
HandleNotFound(r) ==
    /\ conn[r].pc = "call_next"
    /\ conn[r].request.path \notin {"/", "/health", "/predict", "/metrics"}
    /\ conn' = [conn EXCEPT ![r].pc = "responded",
                            ![r].response = [status_code |-> 404,
                                             body |-> Detail("Not Found", "", {})]]
    /\ UNCHANGED <<metricVars, recorded, endCalls, task>>

\* (mutation of DispatchReturnMetrics: the metrics path is tracked like any other)
DispatchReturnMetrics_Tracked(r) ==
    /\ conn[r].pc = "responded"
    /\ conn[r].request.path = "/metrics"
    /\ record_request_end(conn[r].request.method, conn[r].request.path,
                          conn[r].response.status_code)
    /\ conn' = [conn EXCEPT ![r].pc = "done"]
    /\ UNCHANGED <<PREDICTION_COUNT, FEATURE_MEAN, FEATURE_STDDEV, PREDICTION_LATENCY,
                   DATA_DRIFT_SCORE, PREDICTIONS_BUFFER, recorded, endCalls, task>>

\* main.py:48-49: the metrics path returns the response untracked
DispatchReturnMetrics(r) ==
    /\ conn[r].pc = "responded"
    /\ conn[r].request.path = "/metrics"
    /\ conn' = [conn EXCEPT ![r].pc = "done"]
    /\ UNCHANGED <<metricVars, recorded, endCalls, task>>

\* main.py:59-62: record the request's end, return the response
DispatchReturn(r) ==
    /\ conn[r].pc = "responded"
    /\ conn[r].request.path # "/metrics"
    /\ record_request_end(conn[r].request.method, conn[r].request.path,
                          conn[r].response.status_code)
    /\ endCalls' = [endCalls EXCEPT ![r] = @ + 1]
    /\ conn' = [conn EXCEPT ![r].pc = "done"]
    /\ UNCHANGED <<PREDICTION_COUNT, FEATURE_MEAN, FEATURE_STDDEV, PREDICTION_LATENCY,
                   DATA_DRIFT_SCORE, PREDICTIONS_BUFFER, recorded, task>>

Next ==
    \/ \E r \in Slots, req \in Requests : Dispatch(r, req)
    \/ \E r \in Slots : HandlePredict(r)
    \/ \E r \in Slots : HandleHealth(r)
    \/ \E r \in Slots : HandleRoot(r)
    \/ \E r \in Slots : HandleMetrics(r)
    \/ \E r \in Slots : HandleNotFound(r)
    \/ \E r \in Slots : DispatchReturnMetrics(r)
    \/ \E r \in Slots : DispatchReturn(r)

Spec == Init /\ [][Next]_vars

----------------------------------------------------------------------------
(* The metrics module called directly, as its unit tests and batch callers  *)
(* do: a long run of record_prediction calls.                               *)

\* a direct call of metrics.record_prediction (metrics.py:103-124)
RecordDirect(call) ==
    /\ Len(recorded) < MaxRecords
    /\ Len(recorded) >= FreeCalls => call = recorded[Len(recorded) + 1 - Period]
    /\ record_prediction(call.model_name, call.features, call.predicted_class)
    /\ UNCHANGED <<REQUEST_COUNT, REQUEST_LATENCY, DATA_DRIFT_SCORE, conn, endCalls, task>>

NextBuffer == \E call \in DirectCalls : RecordDirect(call)

SpecBuffer == Init /\ [][NextBuffer]_vars

----------------------------------------------------------------------------
(* The other entry points of the metrics module, called directly as its     *)
(* unit tests and a drift monitor do.                                       *)

\* a direct call of metrics._update_feature_statistics (metrics.py:127-162)
UpdateStatistics(model_name, predictions) ==
    /\ update_feature_statistics(model_name, predictions)
    /\ UNCHANGED <<REQUEST_COUNT, REQUEST_LATENCY, PREDICTION_COUNT, PREDICTION_LATENCY,
                   DATA_DRIFT_SCORE, PREDICTIONS_BUFFER, conn, recorded, endCalls, task>>

\* a call of metrics.update_data_drift (metrics.py:165-177)
UpdateDrift(model_name, feature, drift_score) ==
    /\ update_data_drift(model_name, feature, drift_score)
    /\ UNCHANGED <<REQUEST_COUNT, REQUEST_LATENCY, PREDICTION_COUNT, FEATURE_MEAN,
                   FEATURE_STDDEV, PREDICTION_LATENCY, PREDICTIONS_BUFFER,
                   conn, recorded, endCalls, task>>

\* a direct call of metrics.record_prediction (metrics.py:103-124)
StatsRecord(call) ==
    /\ Len(recorded) < MaxStatsRecords
    /\ record_prediction(call.model_name, call.features, call.predicted_class)
    /\ UNCHANGED <<REQUEST_COUNT, REQUEST_LATENCY, DATA_DRIFT_SCORE, conn, endCalls, task>>

NextStats ==
    \/ \E m \in StatsModels, P \in StatsInputs : UpdateStatistics(m, P)
    \/ \E m \in DriftModels, f \in DriftFeatures, score \in DriftScores :
          UpdateDrift(m, f, score)
    \/ \E call \in LoopCalls : StatsRecord(call)

SpecStats == Init /\ [][NextStats]_vars

----------------------------------------------------------------------------
(* The handlers of concurrent /predict requests inside record_prediction,   *)
(* statement by statement.                                                  *)

\* (mutation of LoopFree: predict is a plain def and runs in the thread pool,
\* where a handler may run whatever the others are doing)
LoopFree_ThreadPool(h) == TRUE

\* (mutation of LoopFree: record_prediction awaits between its append and its
\* eviction loop, where the event loop may run another handler)
LoopFree_YieldAfterAppend(h) ==
    \A g \in Handlers \ {h} : task[g].pc \in {"await", "appended"}

\* main.py:148-149, 195: predict is a coroutine on the one event loop and
\* record_prediction awaits nothing, so handler h runs only while no other
\* handler is inside record_prediction
LoopFree(h) == \A g \in Handlers \ {h} : task[g].pc = "await"

\* metrics.py:114-116: the handler enters record_prediction and counts
LoopCall(h, call) ==
    /\ task[h].pc = "await"
    /\ LoopFree(h)
    /\ Len(recorded) < MaxLoopCalls
    /\ Len(recorded) >= FreeCalls => call = recorded[Len(recorded) + 1 - Period]
    /\ PREDICTION_COUNT' = Inc(PREDICTION_COUNT, <<call.model_name, call.predicted_class>>)
    /\ task' = [task EXCEPT ![h] = [pc |-> "counted", call |-> call]]
    /\ UNCHANGED <<REQUEST_COUNT, REQUEST_LATENCY, FEATURE_MEAN, FEATURE_STDDEV,
                   PREDICTION_LATENCY, DATA_DRIFT_SCORE, PREDICTIONS_BUFFER,
                   conn, recorded, endCalls>>

\* metrics.py:118: _PREDICTIONS_BUFFER.append(features)
LoopAppend(h) ==
    /\ task[h].pc = "counted"
    /\ LoopFree(h)
    /\ PREDICTIONS_BUFFER' = Append(PREDICTIONS_BUFFER, task[h].call.features)
    /\ recorded' = Append(recorded, task[h].call)
    /\ task' = [task EXCEPT ![h].pc = "appended"]
    /\ UNCHANGED <<REQUEST_COUNT, REQUEST_LATENCY, PREDICTION_COUNT, FEATURE_MEAN,
                   FEATURE_STDDEV, PREDICTION_LATENCY, DATA_DRIFT_SCORE, conn, endCalls>>

\* metrics.py:119-120: one turn of the loop, the list is over capacity
LoopPop(h) ==
    /\ task[h].pc = "appended"
    /\ LoopFree(h)
    /\ Len(PREDICTIONS_BUFFER) > BUFFER_SIZE
    /\ PREDICTIONS_BUFFER' = Tail(PREDICTIONS_BUFFER)
    /\ UNCHANGED <<REQUEST_COUNT, REQUEST_LATENCY, PREDICTION_COUNT, FEATURE_MEAN,
                   FEATURE_STDDEV, PREDICTION_LATENCY, DATA_DRIFT_SCORE, conn,
                   recorded, endCalls, task>>

\* metrics.py:119, 122: the loop ends, _update_feature_statistics reads the list
LoopUpdate(h) ==
    /\ task[h].pc = "appended"
    /\ LoopFree(h)
    /\ Len(PREDICTIONS_BUFFER) <= BUFFER_SIZE
    /\ FEATURE_MEAN' =
          update_feature_mean(FEATURE_MEAN, task[h].call.model_name, PREDICTIONS_BUFFER)
    /\ FEATURE_STDDEV' =
          update_feature_stddev(FEATURE_STDDEV, task[h].call.model_name, PREDICTIONS_BUFFER)
    /\ task' = [task EXCEPT ![h].pc = "updated"]
    /\ UNCHANGED <<REQUEST_COUNT, REQUEST_LATENCY, PREDICTION_COUNT, PREDICTION_LATENCY,
                   DATA_DRIFT_SCORE, PREDICTIONS_BUFFER, conn, recorded, endCalls>>

\* metrics.py:124: the latency observation, and the return to the handler
LoopObserve(h) ==
    /\ task[h].pc = "updated"
    /\ LoopFree(h)
    /\ PREDICTION_LATENCY' = Inc(PREDICTION_LATENCY, <<task[h].call.model_name>>)
    /\ task' = [task EXCEPT ![h] = [pc |-> "await", call |-> NoCall]]
    /\ UNCHANGED <<REQUEST_COUNT, REQUEST_LATENCY, PREDICTION_COUNT, FEATURE_MEAN,
                   FEATURE_STDDEV, DATA_DRIFT_SCORE, PREDICTIONS_BUFFER, conn,
                   recorded, endCalls>>

NextLoop ==
    \/ \E h \in Handlers, call \in LoopCalls : LoopCall(h, call)
    \/ \E h \in Handlers : LoopAppend(h)
    \/ \E h \in Handlers : LoopPop(h)
    \/ \E h \in Handlers : LoopUpdate(h)
    \/ \E h \in Handlers : LoopObserve(h)

SpecLoop == Init /\ [][NextLoop]_vars

----------------------------------------------------------------------------
(* Vocabulary of the properties *)

\* the value of a labelled counter, 0 when the label has no child yet
ValueOf(metric, l) == IF l \in DOMAIN metric THEN metric[l] ELSE 0

\* slot r holds a POST /predict request whose handler has run
Predicted(r) ==
    /\ conn[r].pc \in {"responded", "done"}
    /\ conn[r].request.path = "/predict"

\* what load_model returned for the request of slot r
LoadedFor(r) == load_model(ResolveModelName(conn[r].request.body))

\* the names of a predictor's declared schema
SchemaOf(model) ==
    {model.feature_names_in_[i] : i \in 1..Len(model.feature_names_in_)}

\* slot r holds a POST /predict request whose model loaded and whose features
\* cover the model's declared schema (if it declares one)
Validated(r) ==
    /\ Predicted(r)
    /\ ~LoadedFor(r).raises
    /\ (LoadedFor(r).model.has_feature_names_in_
          => SchemaOf(LoadedFor(r).model) \subseteq DOMAIN conn[r].request.body.features)

\* the frame, the label and the probabilities the predictor of slot r produced
FrameOf(r) == FeatureFrame(LoadedFor(r).model, conn[r].request.body.features)
LabelOf(r) == ModelPredict(LoadedFor(r).model, FrameOf(r))
ProbaOf(r) == ModelPredictProba(LoadedFor(r).model, FrameOf(r))

\* two scalars are the same value of the same type
SameScalar(a, b) == a.type = b.type /\ a.val = b.val

----------------------------------------------------------------------------
(* C1  (SpecBuffer) *)

\* C1: after any sequence of record_prediction calls the buffer holds at most
\* 100 entries; after k calls it holds exactly min(k, 100) entries, and these
\* are the feature mappings of the most recent calls, in arrival order.
C1_BufferHoldsNewest ==
    LET k == Len(recorded)
        n == Len(PREDICTIONS_BUFFER)
    IN /\ n <= 100
       /\ n = Min(k, 100)
       /\ \A i \in 1..n : PREDICTIONS_BUFFER[i] = recorded[k - n + i].features

\* 150 calls were made: the buffer holds the 100 newest and the 50 oldest are
\* gone, and the stream was not constant across the eviction frontier
C1_Witness ==
    /\ Len(recorded) = 150
    /\ Len(PREDICTIONS_BUFFER) = 100
    /\ PREDICTIONS_BUFFER[1] = recorded[51].features
    /\ recorded[50].features # recorded[51].features

----------------------------------------------------------------------------
(* C2 .. C8  (Spec): the /predict contract of the specification *)

\* C2: for a predictor that declares a feature schema, a request whose
\* features omit a schema name is answered 400 and the detail names exactly
\* the missing features.
C2_MissingFeatures400 ==
    \A r \in Slots :
        (/\ Predicted(r)
         /\ ~LoadedFor(r).raises
         /\ LoadedFor(r).model.has_feature_names_in_
         /\ ~(SchemaOf(LoadedFor(r).model) \subseteq DOMAIN conn[r].request.body.features))
        => /\ conn[r].response.status_code = 400
           /\ conn[r].response.body.detail.names =
                 SchemaOf(LoadedFor(r).model) \ DOMAIN conn[r].request.body.features

\* C3: when no predictor is available, /predict is answered 503 with the body
\* {"detail": "Model not loaded"}.
C3_NotLoaded503 ==
    \A r \in Slots :
        (Predicted(r) /\ LoadedFor(r).raises)
        => /\ conn[r].response.status_code = 503
           /\ conn[r].response.body = Detail("Model not loaded", "", {})

\* C4: a successful response populates at most one of probability and
\* confidence: with exactly 2 classes probability and no confidence, with
\* N > 2 classes a confidence mapping with one entry per class index and no
\* probability.
C4_ProbabilityXorConfidence ==
    \A r \in Slots :
        (Predicted(r) /\ conn[r].response.status_code = 200)
        => LET body == conn[r].response.body
               classes == LoadedFor(r).model.classes_
           IN /\ ~({"probability", "confidence"} \subseteq DOMAIN body)
              /\ Len(classes) = 2
                   => ("probability" \in DOMAIN body /\ "confidence" \notin DOMAIN body)
              /\ Len(classes) > 2
                   => /\ "probability" \notin DOMAIN body
                      /\ "confidence" \in DOMAIN body
                      /\ DOMAIN body.confidence =
                            {ToString(i - 1) : i \in 1..Len(classes)}

\* C5: for a binary predictor the probability of the response is the
\* predict_proba value of the second class, whatever label was predicted.
C5_BinaryPositiveClass ==
    \A r \in Slots :
        (/\ Predicted(r)
         /\ conn[r].response.status_code = 200
         /\ LoadedFor(r).model.has_predict_proba
         /\ Len(LoadedFor(r).model.classes_) = 2)
        => /\ "probability" \in DOMAIN conn[r].response.body
           /\ conn[r].response.body.probability = PyFloat(ProbaOf(r).value[2])

\* C6: for a predictor without predict_proba a successful response carries
\* the prediction and neither a probability nor a confidence key.
C6_RegressionNoProbability ==
    \A r \in Slots :
        (/\ Predicted(r)
         /\ conn[r].response.status_code = 200
         /\ ~LoadedFor(r).model.has_predict_proba)
        => /\ "prediction" \in DOMAIN conn[r].response.body
           /\ "probability" \notin DOMAIN conn[r].response.body
           /\ "confidence" \notin DOMAIN conn[r].response.body

\* C7: if predict succeeds but the probability computation fails (predict_proba
\* raises, or the label is not in classes_), the request still completes with
\* 200 and the prediction, the probability is omitted, and the prediction
\* event is recorded.
C7_ProbabilityFailureSwallowed ==
    \A r \in Slots :
        (/\ Validated(r)
         /\ ~LabelOf(r).raises
         /\ LoadedFor(r).model.has_predict_proba
         /\ (ProbaOf(r).raises
               \/ PredictionIdx(LoadedFor(r).model, LabelOf(r).value) = 0))
        => /\ conn[r].response.status_code = 200
           /\ "prediction" \in DOMAIN conn[r].response.body
           /\ "probability" \notin DOMAIN conn[r].response.body
           /\ \E i \in 1..Len(recorded) :
                 /\ recorded[i].features = conn[r].request.body.features
                 /\ recorded[i].predicted_class = PyStr(LabelOf(r).value)

\* C8: for every feature mapping that contains all names of the predictor's
\* declared schema, /predict returns 200 and the prediction field equals the
\* value predict returned for the row, with the same type.
C8_PredictionEqualsPredictOutput ==
    \A r \in Slots :
        (Validated(r) /\ LoadedFor(r).model.has_feature_names_in_)
        => /\ conn[r].response.status_code = 200
           /\ SameScalar(conn[r].response.body.prediction, LabelOf(r).value)

----------------------------------------------------------------------------
(* C9, C10  (Spec): the counters *)

\* the label pairs of the record_prediction calls made so far
RecordedPairs ==
    {<<recorded[i].model_name, recorded[i].predicted_class>> : i \in 1..Len(recorded)}

\* the number of record_prediction calls made with the label pair l
RecordedWith(l) ==
    Cardinality({i \in 1..Len(recorded) :
                    <<recorded[i].model_name, recorded[i].predicted_class>> = l})

C9_CountsMatch ==
    \A l \in DOMAIN PREDICTION_COUNT \cup RecordedPairs :
        ValueOf(PREDICTION_COUNT, l) = RecordedWith(l)

C9_OnlyGrow ==
    \A l \in DOMAIN PREDICTION_COUNT :
        l \in DOMAIN PREDICTION_COUNT' /\ PREDICTION_COUNT'[l] >= PREDICTION_COUNT[l]

\* C9: after any sequence of recorded predictions the prediction counter of
\* each pair (model_name, predicted_class) equals the number of recorded
\* predictions with exactly that pair, and no step lowers or removes a counter.
C9_PredictionCounter == [](C9_CountsMatch) /\ [][C9_OnlyGrow]_vars

\* two predictions with the same pair were recorded and counted
C9_Witness ==
    \E l \in DOMAIN PREDICTION_COUNT :
        PREDICTION_COUNT[l] = 2 /\ RecordedWith(l) = 2 /\ Cardinality(RecordedPairs) = 1

\* the requests whose dispatch has returned, by request-counter label
ReturnedWith(l) ==
    {r \in Slots : /\ conn[r].pc = "done"
                   /\ conn[r].request.path # "/metrics"
                   /\ <<conn[r].request.method, conn[r].request.path,
                        conn[r].response.status_code>> = l}

ReturnedOn(l) ==
    {r \in Slots : /\ conn[r].pc = "done"
                   /\ conn[r].request.path # "/metrics"
                   /\ <<conn[r].request.method, conn[r].request.path>> = l}

----------------------------------------------------------------------------
(* C11  (Spec): reading the metrics *)

\* a step of the request of slot r: its dispatch, its handler or its return
StepOf(r) == conn'[r] # conn[r]

----------------------------------------------------------------------------
(* C12  (SpecBuffer): one buffer per model *)

\* the calls recorded for model m, and those of them still in the buffer
RecordedFor(m) == {i \in 1..Len(recorded) : recorded[i].model_name = m}

KeptFor(m) ==
    {i \in RecordedFor(m) : i > Len(recorded) - Len(PREDICTIONS_BUFFER)}

\* C12: the buffer is kept per model name: each model keeps its own newest
\* 100 mappings whatever is recorded for other models, and the mean and
\* stddev gauges of a model are computed from mappings recorded for that
\* model only (so they exist only for features that model was sent).
C12_PerModelBuffer ==
    \A m \in {recorded[i].model_name : i \in 1..Len(recorded)} :
        /\ Cardinality(KeptFor(m)) = Min(Cardinality(RecordedFor(m)), 100)
        /\ \A key \in DOMAIN FEATURE_MEAN \cup DOMAIN FEATURE_STDDEV :
              key[1] = m
              => \E i \in RecordedFor(m) : key[2] \in DOMAIN recorded[i].features

----------------------------------------------------------------------------
(* C13, C14  (SpecLoop): concurrent callers of record_prediction *)

\* handler g may be given the processor in this state: it sees the state
Observes(g) == LoopFree(g)

\* C13: under concurrent callers the append and the eviction form one atomic
\* step: in every state another caller can observe the buffer holds at most
\* 100 entries, and what was evicted are the oldest entries only (the buffer
\* is always the newest part of what was appended, in order).
C13_AppendEvictAtomic ==
    /\ Len(PREDICTIONS_BUFFER) > 100
          => \E h \in Handlers :
                 /\ task[h].pc = "appended"
                 /\ \A g \in Handlers \ {h} : ~Observes(g)
    /\ Len(PREDICTIONS_BUFFER) <= Len(recorded)
    /\ \A i \in 1..Len(PREDICTIONS_BUFFER) :
          PREDICTIONS_BUFFER[i] =
              recorded[Len(recorded) - Len(PREDICTIONS_BUFFER) + i].features

\* a handler has appended the 101st mapping and evicted the oldest, the
\* other handler is suspended and the buffer holds the 100 newest
C13_Witness ==
    \E h \in Handlers :
        /\ task[h].pc = "updated"
        /\ \A g \in Handlers \ {h} : task[g].pc = "await"
        /\ Len(recorded) = 101
        /\ Len(PREDICTIONS_BUFFER) = 100
        /\ PREDICTIONS_BUFFER[1] = recorded[2].features
        /\ recorded[1].features # recorded[2].features

\* the calls a handler has counted and not yet appended, by counter label
PendingWith(l) ==
    Cardinality({h \in Handlers :
                    /\ task[h].pc = "counted"
                    /\ <<task[h].call.model_name, task[h].call.predicted_class>> = l})

\* C14: the mutations are linearizable: no counter update is lost (every
\* prediction counter equals the number of calls made with its label, so the
\* counters sum to the number of calls), when the callers have returned each
\* mapping is in the buffer exactly once, newest 100 in call order, and the
\* statistics recomputation of a call reads the buffer as that call's own
\* append and eviction left it.
C14_Linearizable ==
    /\ \A l \in DOMAIN PREDICTION_COUNT \cup RecordedPairs :
          ValueOf(PREDICTION_COUNT, l) = RecordedWith(l) + PendingWith(l)
    /\ (\A h \in Handlers : task[h].pc = "await")
          => /\ Len(PREDICTIONS_BUFFER) = Min(Len(recorded), 100)
             /\ PREDICTIONS_BUFFER =
                   [i \in 1..Len(PREDICTIONS_BUFFER) |->
                       recorded[Len(recorded) - Len(PREDICTIONS_BUFFER) + i].features]
    /\ \A h \in Handlers :
          task[h].pc = "appended"
          => /\ PREDICTIONS_BUFFER # <<>>
             /\ PREDICTIONS_BUFFER[Len(PREDICTIONS_BUFFER)] = task[h].call.features
             /\ recorded[Len(recorded)] = task[h].call

\* 102 calls have returned, made with both counter labels: the counters sum
\* to 102 and the buffer holds the newest 100 mappings
C14_Witness ==
    /\ \A h \in Handlers : task[h].pc = "await"
    /\ Len(recorded) = 102
    /\ Cardinality(DOMAIN PREDICTION_COUNT) = 2
    /\ \A l \in DOMAIN PREDICTION_COUNT : PREDICTION_COUNT[l] = RecordedWith(l)
    /\ Len(PREDICTIONS_BUFFER) = 100

----------------------------------------------------------------------------
(* C15  (Spec): failures while serving /predict *)

\* str() of the exception raised while serving the request of slot r after
\* its model loaded, "" when the predictor calls and the class lookup succeed
RaisedBy(r) ==
    IF LabelOf(r).raises THEN LabelOf(r).message
    ELSE IF ~LoadedFor(r).model.has_predict_proba THEN ""
    ELSE IF ProbaOf(r).raises THEN ProbaOf(r).message
    ELSE IF \A i \in 1..Len(LoadedFor(r).model.classes_) :
                ~SameScalar(LoadedFor(r).model.classes_[i], LabelOf(r).value)
    THEN PyStr(LabelOf(r).value) \o " is not in list"
    ELSE ""

----------------------------------------------------------------------------
(* C16  (Spec): artifacts that do not load *)

\* the artifact the request of slot r names is missing, of an unsupported
\* format, or unreadable
Unloadable(r) ==
    LET name == ResolveModelName(conn[r].request.body)
    IN \/ name \notin DOMAIN ModelStore
       \/ ~(EndsWithPkl(name) \/ EndsWithJoblib(name))
       \/ ModelStore[name] = Corrupt

\* C16: a /predict request naming an artifact that is missing, of an
\* unsupported format or corrupt is answered 500 with the load error; the
\* failure is final for the request (no other model answers in its place)
\* and no prediction is recorded for it.
C16_LoadFailure500 ==
    \A r \in Slots :
        (Predicted(r) /\ Unloadable(r))
        => /\ conn[r].response.status_code = 500
           /\ conn[r].response.body.detail.prefix = "Error loading model: "
           /\ conn[r].response.body.detail.cause # ""
           /\ \A i \in 1..Len(recorded) :
                 recorded[i].model_name #
                     SplitDot0(ResolveModelName(conn[r].request.body))

\* a request for a corrupt artifact and one for a missing artifact were both
\* answered 500 and nothing was recorded
C16_Witness ==
    \E r, q \in Slots :
        /\ conn[r].pc = "done" /\ conn[r].request.path = "/predict"
        /\ conn[r].request.body.model_name = "corrupt.pkl"
        /\ conn[r].response.status_code = 500
        /\ conn[q].pc = "done" /\ conn[q].request.path = "/predict"
        /\ conn[q].request.body.model_name = "missing.pkl"
        /\ conn[q].response.status_code = 500
        /\ recorded = <<>>

----------------------------------------------------------------------------
(* C17  (SpecBuffer): the statistics of a recomputation *)

\* over the buffer: how many entries contain feature f, the sum of its values
\* and the sum of their squares (an entry without f adds nothing)
PresentCount(f) ==
    Cardinality({i \in 1..Len(PREDICTIONS_BUFFER) : f \in DOMAIN PREDICTIONS_BUFFER[i]})

PresentSum(f) ==
    SumSeq([i \in 1..Len(PREDICTIONS_BUFFER) |->
               IF f \in DOMAIN PREDICTIONS_BUFFER[i]
               THEN PREDICTIONS_BUFFER[i][f] ELSE 0])

PresentSquares(f) ==
    SumSeq([i \in 1..Len(PREDICTIONS_BUFFER) |->
               IF f \in DOMAIN PREDICTIONS_BUFFER[i]
               THEN PREDICTIONS_BUFFER[i][f] * PREDICTIONS_BUFFER[i][f] ELSE 0])

\* C17: after a recorded prediction for model m, for each feature f the
\* recomputation considered, the mean gauge (m, f) is the arithmetic mean of
\* exactly the buffered values of the entries that contain f (entries without
\* f are skipped, not counted as 0), and when there are at least two such
\* values the stddev gauge (m, f) is the square root of their population
\* variance: E[x^2] - E[x]^2, the divisor being n and not n - 1.
C17_MeanAndPopulationStddev ==
    recorded # <<>>
    => LET m == recorded[Len(recorded)].model_name
       IN \A f \in ConsideredFeatures(PREDICTIONS_BUFFER) :
             LET n == PresentCount(f)
                 S == PresentSum(f)
                 Q == PresentSquares(f)
             IN /\ <<m, f>> \in DOMAIN FEATURE_MEAN
                /\ FEATURE_MEAN[<<m, f>>] = Frac(S, n)
                /\ n >= 2
                     => /\ <<m, f>> \in DOMAIN FEATURE_STDDEV
                        /\ FEATURE_STDDEV[<<m, f>>] = Sqrt(Frac(n * Q - S * S, n * n))

\* the buffer is full, feature f2 is in some entries only and feature f1 has
\* differing values: the mean of f2 is over its 50 present values and the
\* stddev of f1 is not 0
C17_Witness ==
    /\ Len(PREDICTIONS_BUFFER) = 100
    /\ recorded[Len(recorded)].model_name = "test_model"
    /\ ConsideredFeatures(PREDICTIONS_BUFFER) = {"f1", "f2"}
    /\ PresentCount("f2") = 50
    /\ FEATURE_MEAN[<<"test_model", "f2">>] = Frac(2, 1)
    /\ FEATURE_STDDEV[<<"test_model", "f1">>] = Sqrt(Frac(1, 1))

----------------------------------------------------------------------------
(* C18, C20  (SpecStats): what a recomputation and a drift update write *)

\* the entries of the list P that contain feature f
EntriesWith(P, f) == {i \in 1..Len(P) : f \in DOMAIN P[i]}

C20_DriftSetsOneLabel ==
    [][\A m \in DriftModels, f \in DriftFeatures, score \in DriftScores :
          UpdateDrift(m, f, score)
          => /\ DOMAIN DATA_DRIFT_SCORE' = DOMAIN DATA_DRIFT_SCORE \cup {<<m, f>>}
             /\ DATA_DRIFT_SCORE'[<<m, f>>] = score
             /\ \A l \in DOMAIN DATA_DRIFT_SCORE \ {<<m, f>>} :
                   DATA_DRIFT_SCORE'[l] = DATA_DRIFT_SCORE[l]
             /\ UNCHANGED <<REQUEST_COUNT, REQUEST_LATENCY, PREDICTION_COUNT,
                             FEATURE_MEAN, FEATURE_STDDEV, PREDICTION_LATENCY,
                             PREDICTIONS_BUFFER>>]_vars

\* a prediction was recorded, statistics were computed and the drift gauge
\* holds different scores for the same feature of two models
C20_Witness ==
    /\ PREDICTIONS_BUFFER # <<>>
    /\ DOMAIN PREDICTION_COUNT # {}
    /\ DOMAIN FEATURE_STDDEV # {}
    /\ DOMAIN DATA_DRIFT_SCORE = {<<"test_model", "f1">>, <<"other_model", "f1">>}
    /\ DATA_DRIFT_SCORE[<<"test_model", "f1">>] = 25
    /\ DATA_DRIFT_SCORE[<<"other_model", "f1">>] = 10

----------------------------------------------------------------------------
(* C19  (SpecBuffer): which features a recomputation considers *)

\* C19: the features a recorded prediction recomputes are the names of the
\* newest (last appended) buffer entry: each feature of the mapping just
\* recorded for model m has its mean gauge (m, f) set to the mean of its
\* buffered values, and a feature no mapping recorded for m contained as its
\* newest entry is never computed for m.
C19_NewestEntryFeatures ==
    recorded # <<>>
    => LET m == recorded[Len(recorded)].model_name
           newest == PREDICTIONS_BUFFER[Len(PREDICTIONS_BUFFER)]
       IN /\ \A f \in DOMAIN newest :
                /\ <<m, f>> \in DOMAIN FEATURE_MEAN
                /\ FEATURE_MEAN[<<m, f>>] = Frac(PresentSum(f), PresentCount(f))
          /\ \A key \in DOMAIN FEATURE_MEAN :
                \E i \in 1..Len(recorded) :
                    /\ recorded[i].model_name = key[1]
                    /\ key[2] \in DOMAIN recorded[i].features

----------------------------------------------------------------------------
(* C21  (Spec): the health endpoint *)

\* C21: GET /health is answered 200 with a body that has both status and
\* message: status "healthy" with the message "Model is loaded and ready for
\* inference" when a model is available, status "error" with the message
\* "Model not loaded" when none is.
C21_HealthStatusAndMessage ==
    \A r \in Slots :
        (conn[r].pc \in {"responded", "done"} /\ conn[r].request.path = "/health")
        => /\ conn[r].response.status_code = 200
           /\ {"status", "message"} \subseteq DOMAIN conn[r].response.body
           /\ \/ /\ conn[r].response.body.status = "healthy"
                 /\ conn[r].response.body.message =
                       "Model is loaded and ready for inference"
              \/ /\ conn[r].response.body.status = "error"
                 /\ conn[r].response.body.message = "Model not loaded"

----------------------------------------------------------------------------
(* C22  (Spec): failed requests record nothing *)

----------------------------------------------------------------------------
(* C23  (Spec): the order of the steps of a /predict request *)

\* the number of times the handler of slot r made the call c
TimesCalled(r, c) ==
    Cardinality({i \in 1..Len(conn[r].calls) : conn[r].calls[i] = c})

\* C23: a /predict request runs load, validate, predict, record, respond in
\* this order: the handler loads once, calls predict and predict_proba at
\* most once each and in this order, and records after them; when the model
\* does not load or a schema feature is missing the request is answered with
\* an error without predict or predict_proba having been called, and
\* nothing is tried again.
C23_LoadValidatePredictRecord ==
    \A r \in Slots :
        Predicted(r)
        => /\ \E n \in 1..4 :
                 conn[r].calls =
                     SubSeq(<<"load_model", "predict", "predict_proba",
                              "record_prediction">>, 1, n)
                 \/ conn[r].calls = <<"load_model", "predict", "record_prediction">>
           /\ (LoadedFor(r).raises \/ ~Validated(r))
                => /\ conn[r].calls = <<"load_model">>
                   /\ conn[r].response.status_code # 200
           /\ (conn[r].response.status_code = 200)
                <=> TimesCalled(r, "record_prediction") = 1

\* one request was rejected for a missing schema feature after the load
\* alone, another ran load, predict, predict_proba and the recording
C23_Witness ==
    \E r, q \in Slots :
        /\ Predicted(r) /\ ~LoadedFor(r).raises /\ ~Validated(r)
        /\ conn[r].calls = <<"load_model">>
        /\ Predicted(q)
        /\ conn[q].calls = <<"load_model", "predict", "predict_proba", "record_prediction">>

----------------------------------------------------------------------------
(* C24  (SpecBuffer): the effects of one record_prediction call *)

\* the sum of all prediction counters
RECURSIVE SumOver(_, _)
SumOver(metric, labels) ==
    IF labels = {} THEN 0
    ELSE LET l == CHOOSE x \in labels : TRUE
         IN metric[l] + SumOver(metric, labels \ {l})

PredictionTotal == SumOver(PREDICTION_COUNT, DOMAIN PREDICTION_COUNT)

\* the mean of feature f over the entries of the list P that contain it
MeanOver(P, f) ==
    Frac(SumSeq([i \in 1..Len(P) |-> IF f \in DOMAIN P[i] THEN P[i][f] ELSE 0]),
         Cardinality(EntriesWith(P, f)))

\* C24: a record_prediction call increments the counter (model_name,
\* predicted_class) once and no other, appends the given features once (the
\* buffer is the old one, less what is evicted, plus the mapping at the end),
\* observes one latency for model_name, and recomputes the statistics of
\* model_name once, after the append and the eviction: the means published
\* are those of the buffer the call leaves, the new mapping included and the
\* evicted one excluded; the gauges of other models are not written.
C24_OneCallOneEffect ==
    [][\A call \in DirectCalls :
          RecordDirect(call)
          => LET m == call.model_name
                 l == <<call.model_name, call.predicted_class>>
                 old == Len(PREDICTIONS_BUFFER)
                 new == Len(PREDICTIONS_BUFFER')
             IN /\ DOMAIN PREDICTION_COUNT' = DOMAIN PREDICTION_COUNT \cup {l}
                /\ PREDICTION_COUNT'[l] = ValueOf(PREDICTION_COUNT, l) + 1
                /\ \A k \in DOMAIN PREDICTION_COUNT \ {l} :
                      PREDICTION_COUNT'[k] = PREDICTION_COUNT[k]
                /\ new = Min(old + 1, 100)
                /\ PREDICTIONS_BUFFER'[new] = call.features
                /\ \A i \in 1..(new - 1) :
                      PREDICTIONS_BUFFER'[i] = PREDICTIONS_BUFFER[i + old + 1 - new]
                /\ ValueOf(PREDICTION_LATENCY', <<m>>) = ValueOf(PREDICTION_LATENCY, <<m>>) + 1
                /\ \A f \in DOMAIN PREDICTIONS_BUFFER'[1] :
                      /\ <<m, f>> \in DOMAIN FEATURE_MEAN'
                      /\ FEATURE_MEAN'[<<m, f>>] = MeanOver(PREDICTIONS_BUFFER', f)
                /\ \A key \in DOMAIN FEATURE_MEAN :
                      key[1] # m => FEATURE_MEAN'[key] = FEATURE_MEAN[key]
                /\ \A key \in DOMAIN FEATURE_STDDEV :
                      key[1] # m => FEATURE_STDDEV'[key] = FEATURE_STDDEV[key]]_vars

\* the 101st call evicted a mapping that differs from the one it appended:
\* the counters sum to 101 and the mean of f1 is that of the 100 entries left
C24_Witness ==
    /\ Len(recorded) = 101
    /\ Len(PREDICTIONS_BUFFER) = 100
    /\ recorded[1].features # recorded[101].features
    /\ PredictionTotal = 101
    /\ "f1" \in DOMAIN PREDICTIONS_BUFFER[1]
    /\ FEATURE_MEAN[<<recorded[101].model_name, "f1">>]
          = Frac(PresentSum("f1"), PresentCount("f1"))
    /\ PREDICTION_LATENCY[<<recorded[101].model_name>>] >= 50

----------------------------------------------------------------------------
(* C25  (Spec): what a successful /predict records *)

\* a model identifier without its file extension (the text before its last dot)
WithoutExtension(name) ==
    CASE name = "iris_classification_model.pkl" -> "iris_classification_model"
      [] name = "binary.pkl" -> "binary"
      [] name = "regressor.joblib" -> "regressor"
      [] name = "regressor.v2.joblib" -> "regressor.v2"
      [] name = "faulty.pkl" -> "faulty"
      [] name = "missing.pkl" -> "missing"
      [] name = "corrupt.pkl" -> "corrupt"
      [] name = "model.h5" -> "model"
      [] OTHER -> name

\* the event a successful request of slot r is to record
EventOf(r) ==
    [model_name |-> WithoutExtension(ResolveModelName(conn[r].request.body)),
     features |-> conn[r].request.body.features,
     predicted_class |-> PyStr(LabelOf(r).value)]

\* C25: a successful /predict records its prediction under the model's base
\* name (the identifier without its file extension), with the full feature
\* mapping the client sent and the stringified label; requests for two
\* identifiers with different base names never count under one counter label
\* model name.
C25_RecordedUnderBaseName ==
    /\ \A r \in Slots :
          (Predicted(r) /\ conn[r].response.status_code = 200)
          => \E i \in 1..Len(recorded) : recorded[i] = EventOf(r)
    /\ \A r, q \in Slots :
          (/\ Predicted(r) /\ conn[r].response.status_code = 200
           /\ Predicted(q) /\ conn[q].response.status_code = 200
           /\ EventOf(r).model_name # EventOf(q).model_name)
          => Cardinality({l[1] : l \in DOMAIN PREDICTION_COUNT}) >= 2

----------------------------------------------------------------------------
(* C26  (Spec): the model of a request *)

\* the identifier the request of slot r resolves to: its own model_name when
\* it has one, the process default otherwise
IdentifierOf(r) ==
    IF conn[r].request.body.model_name = None
    THEN DEFAULT_MODEL ELSE conn[r].request.body.model_name

\* C26: whatever requests came before, a /predict request is answered by the
\* predictor of its own resolved identifier (its model_name, or the process
\* default when it has none) and reports that identifier: the prediction of
\* a successful response is what the artifact of that identifier predicts
\* for the request's features.
C26_OwnIdentifierOwnPredictor ==
    \A r \in Slots :
        (Predicted(r) /\ conn[r].response.status_code = 200)
        => /\ IdentifierOf(r) \in DOMAIN ModelStore
           /\ conn[r].response.body.model_name = IdentifierOf(r)
           /\ LET model == ModelStore[IdentifierOf(r)]
              IN conn[r].response.body.prediction.val =
                    PyStr(ModelPredict(model,
                              FeatureFrame(model, conn[r].request.body.features)).value)

\* two requests with the same features, one for the default model and one
\* naming another, were both answered, with different predictions
C26_Witness ==
    \E r, q \in Slots :
        /\ Predicted(r) /\ conn[r].response.status_code = 200
        /\ conn[r].request.body.model_name = None
        /\ conn[r].response.body.model_name = DEFAULT_MODEL
        /\ Predicted(q) /\ conn[q].response.status_code = 200
        /\ conn[q].request.body.model_name = "binary.pkl"
        /\ conn[q].request.body.features = conn[r].request.body.features
        /\ conn[q].response.body.prediction # conn[r].response.body.prediction

----------------------------------------------------------------------------
(* C27, C28  (Spec): the statuses of /predict and the two counters *)

C28_RequestsAtMostPredictions ==
    ValueOf(REQUEST_COUNT, <<"POST", "/predict", 200>>) <= PredictionTotal

\* a scrape served between the handler and the return of dispatch shows the
\* prediction counted and the request not yet
C28_Witness ==
    \E r, q \in Slots :
        /\ conn[r].pc = "responded" /\ conn[r].request.path = "/predict"
        /\ conn[r].response.status_code = 200
        /\ conn[q].pc \in {"responded", "done"} /\ conn[q].request.path = "/metrics"
        /\ DOMAIN conn[q].response.body.content.model_prediction_count # {}
        /\ DOMAIN conn[q].response.body.content.http_requests_total = {}
        /\ PredictionTotal = 1
        /\ ValueOf(REQUEST_COUNT, <<"POST", "/predict", 200>>) = 0

----------------------------------------------------------------------------
(* C29  (SpecBuffer): gauges are never cleared *)

\* the gauge child `key` is one the call just recorded recomputes
Recomputed(key) ==
    /\ key[1] = recorded'[Len(recorded')].model_name
    /\ key[2] \in ConsideredFeatures(PREDICTIONS_BUFFER')

\* C29: the mean and stddev gauges are set and never cleared: a recorded
\* prediction removes no gauge child, and a child it does not recompute
\* keeps its last value, also when no buffer entry contains its feature any
\* more.
C29_GaugesNeverCleared ==
    [][/\ \A key \in DOMAIN FEATURE_MEAN :
             /\ key \in DOMAIN FEATURE_MEAN'
             /\ ~Recomputed(key) => FEATURE_MEAN'[key] = FEATURE_MEAN[key]
       /\ \A key \in DOMAIN FEATURE_STDDEV :
             /\ key \in DOMAIN FEATURE_STDDEV'
             /\ ~Recomputed(key) => FEATURE_STDDEV'[key] = FEATURE_STDDEV[key]]_vars

\* the buffer is full and no entry contains f3 any more, the mean gauge of
\* f3 still shows the value 4 of the evicted mapping
C29_Witness ==
    /\ Len(PREDICTIONS_BUFFER) = 100
    /\ PresentCount("f3") = 0
    /\ <<"other_model", "f3">> \in DOMAIN FEATURE_MEAN
    /\ FEATURE_MEAN[<<"other_model", "f3">>] = Frac(4, 1)

----------------------------------------------------------------------------
(* C30  (Spec): the probability of a response *)

\* the positions of the label predicted for slot r within classes_
LabelPositions(r) ==
    {i \in 1..Len(LoadedFor(r).model.classes_) :
        SameScalar(LoadedFor(r).model.classes_[i], LabelOf(r).value)}

====
